---- MODULE Spec2Model ----
(***************************************************************************)
(* Model of the incremental PDF indexing pipeline of rag.py:               *)
(* initialize_rag (rebuild / fresh build / incremental sync), the manifest *)
(* file, the Chroma store addressed by chunk id, and the process-wide      *)
(* handle _vectordb.  A sync pass is a sequence of steps of one worker;    *)
(* the environment edits the data directory and restarts the process      *)
(* between passes.                                                         *)
(***************************************************************************)
EXTENDS Integers, Sequences, FiniteSets, TLC

\* ---------------------------------------------------------------- bounds
NumContents == 2     \* distinct byte contents a file may hold
MaxStamps == 2       \* distinct readings of the clock that reach a manifest record

\* the candidate PDFs data/a.pdf < data/b.pdf, numbered in sorted order
Paths == {1, 2}
Contents == 1..NumContents
\* the callers of initialize_rag: the passes run one after another, in the
\* frame of one caller
Workers == {1}
SerialWorkers == {1}

\* ---------------------------------------------------------------- constants of rag.py
ERR_NO_PDF == "No PDF documents found in ./data folder."
ERR_RAG_NOT_INIT == "RAG is not initialized. Please initialize the vector store first."

VARIABLES
    dataDir,        \* DATA_PATH.exists()
    files,          \* DATA_PATH/*.pdf : path -> [exists, content]
    dbDir,          \* DB_PATH.exists()
    chromaFiles,    \* the Chroma sqlite files exist inside DB_PATH
    index,          \* the persisted Chroma collection: a set of units, keyed by id
    manifestFile,   \* MANIFEST_PATH : [kind, files]
    vectordb,       \* the module global _vectordb : "None" or "Chroma"
    clock,          \* the latest reading of _utc_now_iso() that was stored
    run,            \* per worker: the frame of its initialize_rag call
    synced,         \* the last call was an incremental sync that returned, and
                    \* the data directory has not changed since
    search,         \* the last rag_search call: its arguments and what it returned
    graph           \* the run of the orchestration graph: GraphState and the node to run

vars == <<dataDir, files, dbDir, chromaFiles, index, manifestFile, vectordb,
          clock, run, synced, search, graph>>

\* everything but the orchestration graph
ragVars == <<dataDir, files, dbDir, chromaFiles, index, manifestFile, vectordb,
             clock, run, synced, search>>

storage == <<dbDir, chromaFiles, index, manifestFile>>

\* ---------------------------------------------------------------- files and hashing
NoFile == [exists |-> FALSE, content |-> 0]

\* _sha256_file: the digest of the bytes; collision free, so it is modelled
\* as a tag that is injective in the content (0 is kept for Python's None).
Sha256File(f) == f.content

\* Path.stat().st_size of a file holding content c
StSize(f) == 10 * f.content

\* _list_pdfs: [] when DATA_PATH is missing, else the sorted existing *.pdf
RECURSIVE SortedSeq(_, _)
SortedSeq(S, from) ==
    IF \A p \in Paths : p < from THEN <<>>
    ELSE IF from \in S THEN <<from>> \o SortedSeq(S, from + 1)
    ELSE SortedSeq(S, from + 1)

ListPdfs ==
    IF ~dataDir THEN <<>>
    ELSE SortedSeq({p \in Paths : files[p].exists}, 1)

\* ---------------------------------------------------------------- chunking and ids
\* PyPDFLoader + _split_docs: a pure function of the bytes.  Content 1 is
\* a one-page file that gives one chunk, every other content a two-page
\* file that gives two; chunk i (0-based, as enumerate gives it) is on page i.
NumChunks(c) == IF c = 1 THEN 1 ELSE 2

SplitDocs(c) == [k \in 1..NumChunks(c) |-> [page |-> k - 1, text |-> <<c, k - 1>>]]

\* the id made of the digest alone
MakeChunkIdShaOnly(file_sha, page, i) == <<file_sha, 0, 0>>

\* _make_chunk_ids: f"{file_sha}:{page}:{i}"
MakeChunkId(file_sha, page, i) == <<file_sha, page, i>>

\* _make_chunk_ids over the chunk list, i from enumerate
MakeChunkIds(file_sha, docs) ==
    [k \in DOMAIN docs |-> MakeChunkId(file_sha, docs[k].page, k - 1)]

\* the documents _ingest_pdf hands to add_documents, with their ids
IngestUnits(src, f) ==
    LET docs == SplitDocs(f.content)
        sha == Sha256File(f)
    IN { [id |-> MakeChunkId(sha, docs[k].page, k - 1),
          source |-> src,
          file_sha256 |-> sha,
          page |-> docs[k].page,
          text |-> docs[k].text] : k \in DOMAIN docs }

\* add_documents on a store that appends whatever it is given
AddDocumentsAppend(db, units) == db \cup units

\* Chroma.add_documents(documents, ids): upsert by id
AddDocuments(db, units) ==
    {u \in db : \A n \in units : n.id # u.id} \cup units

\* Chroma.delete(where={"source": source_path})
DeleteWhereSource(db, src) == {u \in db : u.source # src}

\* ---------------------------------------------------------------- manifest
NoEntry == [tag |-> "none", sha256 |-> 0, size |-> 0, ingested_at_utc |-> 0]

NoFilesMap == [p \in Paths |-> NoEntry]

\* the dict {"files": {}}
EmptyManifest == [kind |-> "ok", files |-> NoFilesMap]

AbsentManifestFile == [kind |-> "absent", files |-> NoFilesMap]

\* the record written at rag.py:175-180 and rag.py:212-217 (mtime_ns is a
\* second stat field stored next to size; nothing reads either of them)
MakeRecord(file_sha, f, now) ==
    [tag |-> "rec", sha256 |-> file_sha, size |-> StSize(f), ingested_at_utc |-> now]

\* _load_manifest: what it returns, or the exception that leaves it.
\*   absent   -> {"files": {}}
\*   badjson  -> json.JSONDecodeError, caught -> {"files": {}}
\*   oserror  -> OSError on read, caught      -> {"files": {}}
\*   badutf8  -> UnicodeDecodeError from read_text: a ValueError that is
\*               neither JSONDecodeError nor OSError, so it is not caught
\*   any other kind is valid JSON and is returned as parsed
LoadManifest(mf) ==
    CASE mf.kind = "absent"  -> [raised |-> "none", value |-> EmptyManifest]
      [] mf.kind = "badjson" -> [raised |-> "none", value |-> EmptyManifest]
      [] mf.kind = "oserror" -> [raised |-> "none", value |-> EmptyManifest]
      [] mf.kind = "badutf8" -> [raised |-> "UnicodeDecodeError", value |-> EmptyManifest]
      [] OTHER               -> [raised |-> "none", value |-> mf]

\* manifest.setdefault("files", {}) on the loaded object: a list has no
\* setdefault (AttributeError); a dict without "files" gets an empty one;
\* a dict whose "files" is null keeps the null
SetDefaultFiles(m) ==
    CASE m.kind = "array"   -> [raised |-> "AttributeError", value |-> m]
      [] m.kind = "nofiles" -> [raised |-> "none", value |-> EmptyManifest]
      [] OTHER              -> [raised |-> "none", value |-> m]

\* truthiness of prev = manifest["files"].get(src): None and {} are falsy
Truthy(e) == e.tag \in {"nosha", "rec"}

\* prev.get("sha256"): None (0) when the key is missing
GetSha(e) == IF e.tag = "rec" THEN e.sha256 ELSE 0

\* the entry is compared with the digest itself: a dict never equals a str
IsSkipDictCompare(prev, file_sha) == FALSE

\* rag.py:201  prev and prev.get("sha256") == file_sha
IsSkip(prev, file_sha) == Truthy(prev) /\ GetSha(prev) = file_sha

\* the second test copied from the first: a changed source is never an update
IsUpdateNever(prev, file_sha) == Truthy(prev) /\ GetSha(prev) = file_sha

\* rag.py:205  prev and prev.get("sha256") != file_sha
IsUpdate(prev, file_sha) == Truthy(prev) /\ GetSha(prev) # file_sha

\* ---------------------------------------------------------------- status
\* the status created before the PDFs are counted
InitStatusNoTotal(pdfs) ==
    [mode |-> "load", pdf_total |-> 0, added_pdfs |-> 0,
     updated_pdfs |-> 0, skipped_pdfs |-> 0, chunks_added |-> 0]

\* rag.py:135-142
InitStatus(pdfs) ==
    [mode |-> "load", pdf_total |-> Len(pdfs), added_pdfs |-> 0,
     updated_pdfs |-> 0, skipped_pdfs |-> 0, chunks_added |-> 0]

\* line 185 left out: the mode stays what InitStatus gave it
FreshModeUnset(rebuild) == "load"

\* rag.py:185
FreshMode(rebuild) == IF rebuild THEN "rebuild" ELSE "rebuild_initial"

\* DB_PATH.exists() and any(DB_PATH.iterdir())
DbNonEmpty(d, c, mf) == d /\ (c \/ mf.kind # "absent")

\* rag.py:156: the incremental branch is taken
UseExisting(d, c, mf, rebuild, existing_db) ==
    DbNonEmpty(d, c, mf) /\ ~rebuild /\ existing_db # "None"

\* ---------------------------------------------------------------- rag_search
NoRelevantInfo == "No relevant information found."

\* metadata keys a stored document does not have: .get("page", None),
\* .get("source", "unknown")
NoPage == -1
NoSource == 0

\* white space inside a text
Blank == -1

\* Path(src_path).name of the candidate PDFs
FileNames == <<"a.pdf", "b.pdf">>
PathName(src) == FileNames[src]

\* rag.py:236-237
SrcName(u) == IF u.source # NoSource THEN PathName(u.source) ELSE "unknown"

\* the stored page number printed as it is
PageLabelZeroBased(page0) == IF page0 # NoPage THEN ToString(page0) ELSE "N/A"

\* rag.py:238-239 and the f-string: page0 + 1 for an int, else "N/A"
PageLabel(page0) == IF page0 # NoPage THEN ToString(page0 + 1) ELSE "N/A"

\* str.strip(): leading and trailing white space removed
RECURSIVE Strip(_)
Strip(t) ==
    IF t = <<>> THEN t
    ELSE IF t[1] = Blank THEN Strip(Tail(t))
    ELSE IF t[Len(t)] = Blank THEN Strip(SubSeq(t, 1, Len(t) - 1))
    ELSE t

\* rag.py:241: "**Kaynak:** {src_name} | **Sayfa:** {page}\n\n{text}"
Entry(u) ==
    [sep |-> FALSE, src_name |-> SrcName(u), page |-> PageLabel(u.page),
     text |-> Strip(u.text)]

\* the delimiter "\n\n---\n\n" of rag.py:243
Delimiter == [sep |-> TRUE, src_name |-> "", page |-> "", text |-> <<>>]

\* the parts put one after the other with nothing between them
JoinNoDelimiter(parts) == parts

\* str.join: the parts with the delimiter between neighbours
RECURSIVE Join(_)
Join(parts) ==
    IF Len(parts) <= 1 THEN parts
    ELSE <<parts[1], Delimiter>> \o Join(Tail(parts))

\* the queries: each ranks the stored units its own way
Queries == {1, 2}
Ks == {1, 2}

UnitKey(u) == 100 * u.id[1] + 10 * (u.id[2] + 1) + u.id[3]

\* the distance of unit u from query q
Distance(q, u) == IF q = 1 THEN UnitKey(u) ELSE 0 - UnitKey(u)

\* Chroma.similarity_search(query, k): the k nearest units, nearest first
RECURSIVE SimilaritySearch(_, _, _)
SimilaritySearch(db, q, k) ==
    IF db = {} \/ k = 0 THEN <<>>
    ELSE LET u == CHOOSE x \in db : \A y \in db : Distance(q, x) <= Distance(q, y)
         IN <<u>> \o SimilaritySearch(db \ {u}, q, k - 1)

\* rag.py:234-243 for a non-empty result list
FormatResults(results) == Join([j \in DOMAIN results |-> Entry(results[j])])

\* the test for an empty result placed before the test of the handle
RagSearchEmptyFirst(handle, results) ==
    IF results = <<>> THEN [text |-> NoRelevantInfo, parts |-> <<>>]
    ELSE IF handle = "None" THEN [text |-> ERR_RAG_NOT_INIT, parts |-> <<>>]
    ELSE [text |-> "", parts |-> FormatResults(results)]

\* rag_search (rag.py:225-243): the string it returns, as a sentinel or as
\* the joined parts
RagSearchResult(handle, results) ==
    IF handle = "None" THEN [text |-> ERR_RAG_NOT_INIT, parts |-> <<>>]
    ELSE IF results = <<>> THEN [text |-> NoRelevantInfo, parts |-> <<>>]
    ELSE [text |-> "", parts |-> FormatResults(results)]

NoSearch ==
    [pc |-> "none", query |-> 0, k |-> 0, handle |-> "None", results |-> <<>>,
     out |-> [text |-> "", parts |-> <<>>]]

\* ---------------------------------------------------------------- orchestration graph
\* GraphState as api_server.process_with_agents passes it in; error "" is None
NoGraphRun ==
    [node |-> "idle", web |-> FALSE, telegram |-> FALSE,
     agents_consulted |-> <<>>, pending_agents |-> <<>>, findings |-> 0,
     error |-> "", is_complete |-> FALSE, executed |-> <<>>]

InSeq(x, q) == \E j \in DOMAIN q : q[j] = x

\* list.remove(x): the first occurrence taken out
RECURSIVE RemoveFirst(_, _)
RemoveFirst(q, x) ==
    IF q = <<>> THEN q
    ELSE IF Head(q) = x THEN Tail(q)
    ELSE <<Head(q)>> \o RemoveFirst(Tail(q), x)

\* as DeterminePendingAgents, with telegram appended first
DeterminePendingAgentsTelegramFirst(web, telegram) ==
    LET agents == (IF telegram THEN <<"telegram">> ELSE <<>>) \o (IF web THEN <<"web">> ELSE <<>>)
    IN IF agents = <<>> THEN <<"telegram", "web">> ELSE agents

\* _determine_pending_agents (build_graph.py:87-101): web when the query
\* has one of the web words, telegram when it has one of the telegram
\* words, both when it has neither
DeterminePendingAgents(web, telegram) ==
    LET agents == (IF web THEN <<"web">> ELSE <<>>) \o (IF telegram THEN <<"telegram">> ELSE <<>>)
    IN IF agents = <<>> THEN <<"web", "telegram">> ELSE agents

\* as Router, without the test of state.error
RECURSIVE RouterIgnoresError(_)
RouterIgnoresError(st) ==
    IF ~InSeq("documentation", st.agents_consulted) THEN "documentation"
    ELSE IF st.pending_agents # <<>>
         THEN IF Head(st.pending_agents) \in {"web", "telegram"}
              THEN Head(st.pending_agents)
              ELSE RouterIgnoresError([st EXCEPT !.pending_agents = Tail(@)])
    ELSE "synthesize"

\* router (build_graph.py:171-191)
RECURSIVE Router(_)
Router(st) ==
    IF st.error # "" THEN "synthesize"
    ELSE IF ~InSeq("documentation", st.agents_consulted) THEN "documentation"
    ELSE IF st.pending_agents # <<>>
         THEN IF Head(st.pending_agents) \in {"web", "telegram"}
              THEN Head(st.pending_agents)
              ELSE Router([st EXCEPT !.pending_agents = Tail(@)])
    ELSE "synthesize"

\* the most findings one agent response carries
MaxFindings == 1

\* GraphState.add_response (state.py:30-37): the agent joins
\* agents_consulted once, its findings are appended
AddResponse(st, agent_name, findings) ==
    [st EXCEPT !.agents_consulted = IF InSeq(agent_name, @) THEN @
                                    ELSE Append(@, agent_name),
               !.findings = @ + findings]

\* what can happen to an agent: it answers, the registry has no such
\* agent, agent.process raises
AgentOutcomes == {"success", "missing", "exception"}

\* _process_agent (build_graph.py:55-84)
ProcessAgent(st, agent_name, outcome, findings) ==
    CASE outcome = "missing"   -> [st EXCEPT !.error = "Agent not found"]
      [] outcome = "exception" -> [st EXCEPT !.error = "Error in agent"]
      [] OTHER -> [AddResponse(st, agent_name, findings) EXCEPT
                      !.pending_agents = RemoveFirst(@, agent_name)]

\* ---------------------------------------------------------------- call frames
NoClass == [p \in Paths |-> "none"]

IdleRun ==
    [pc |-> "idle", rebuild |-> FALSE, pdfs |-> <<>>, i |-> 1,
     manifest |-> EmptyManifest, status |-> InitStatus(<<>>),
     sha |-> 0, stamped |-> FALSE,
     outcome |-> "none", err |-> "none",
     \* history of the call, kept for the properties
     ops |-> <<>>, class |-> NoClass, index0 |-> {},
     db0 |-> [dbDir |-> FALSE, chromaFiles |-> FALSE],
     manifest0 |-> AbsentManifestFile, loaded |-> EmptyManifest,
     handle0 |-> "None", loadIn |-> "notcalled", loadRaised |-> "none",
     rmtree |-> "none", delFailed |-> {}, persist |-> "none",
     repeat |-> FALSE, afterAbort |-> FALSE, fresh |-> FALSE]

Init ==
    /\ dataDir = FALSE
    /\ files = [p \in Paths |-> NoFile]
    /\ dbDir = FALSE
    /\ chromaFiles = FALSE
    /\ index = {}
    /\ manifestFile = AbsentManifestFile
    /\ vectordb = "None"
    /\ clock = 0
    /\ run = [w \in Workers |-> IdleRun]
    /\ synced = FALSE
    /\ search = NoSearch
    /\ graph = NoGraphRun

AllIdle == \A w \in Workers : run[w].pc = "idle"

\* the locals of a finished call are gone; they stay readable only in the
\* state the call ends in
FramesGone == run' = [w \in Workers |-> IdleRun]

\* likewise what the last rag_search returned
SearchGone == search' = NoSearch

\* ---------------------------------------------------------------- environment
MakeDataDir ==
    /\ AllIdle /\ ~dataDir
    /\ dataDir' = TRUE
    /\ FramesGone
    /\ UNCHANGED <<files, storage, vectordb, clock, synced>>

RemoveDataDir ==
    /\ AllIdle /\ dataDir
    /\ dataDir' = FALSE
    /\ files' = [p \in Paths |-> NoFile]
    /\ synced' = FALSE
    /\ FramesGone
    /\ UNCHANGED <<storage, vectordb, clock>>

\* a PDF is created or rewritten with other bytes
WriteFile(p, c) ==
    /\ AllIdle /\ dataDir
    /\ files[p] # [exists |-> TRUE, content |-> c]
    /\ files' = [files EXCEPT ![p] = [exists |-> TRUE, content |-> c]]
    /\ synced' = FALSE
    /\ FramesGone
    /\ UNCHANGED <<dataDir, storage, vectordb, clock>>

RemoveFile(p) ==
    /\ AllIdle /\ files[p].exists
    /\ files' = [files EXCEPT ![p] = NoFile]
    /\ synced' = FALSE
    /\ FramesGone
    /\ UNCHANGED <<dataDir, storage, vectordb, clock>>

\* the interpreter exits and a new one imports rag.py: _vectordb = None
RestartProcess ==
    /\ AllIdle /\ vectordb # "None"
    /\ vectordb' = "None"
    /\ FramesGone
    /\ UNCHANGED <<dataDir, files, storage, clock, synced>>

\* ---------------------------------------------------------------- initialize_rag
Op(name, src) == [op |-> name, src |-> src]

\* _utc_now_iso() during the running call: later than every stored reading
Now == clock + 1

\* the call before this one, in this process and with the data directory
\* untouched since, was an incremental sync left by an exception after it
\* had deleted the units of a source
PrevAborted ==
    \E w \in Workers :
        /\ run[w].pc = "idle" /\ run[w].outcome = "raised"
        /\ run[w].err = "IngestError" /\ ~run[w].fresh
        /\ \E j \in DOMAIN run[w].ops : run[w].ops[j].op = "delete"

\* the frame of a call that got past the argument handling
StartFrame(rebuild, pdfs) ==
    [IdleRun EXCEPT !.rebuild = rebuild, !.pdfs = pdfs,
                    !.status = InitStatus(pdfs),
                    !.index0 = index, !.manifest0 = manifestFile,
                    !.db0 = [dbDir |-> dbDir, chromaFiles |-> chromaFiles],
                    !.handle0 = vectordb,
                    !.repeat = synced,
                    !.afterAbort = PrevAborted]

\* the call is left, by return or by an exception
EndCall(w, r, outcome, err) ==
    /\ run' = [run EXCEPT ![w] = [r EXCEPT !.pc = "idle", !.outcome = outcome, !.err = err]]
    /\ clock' = IF r.stamped THEN Now ELSE clock
    /\ synced' = (outcome = "returned" /\ r.status.mode = "incremental")

\* where the loop goes after source i
AfterSource(r, loop) == IF r.i = Len(r.pdfs) THEN "finish" ELSE loop

\* the emptiness test placed after the rebuild block: the store is erased
\* before the error is raised
CallNoPdfAfterRmtree(w, rebuild) ==
    /\ run[w].pc = "idle" /\ clock < MaxStamps
    /\ ListPdfs = <<>>
    /\ EndCall(w, StartFrame(rebuild, <<>>), "raised", ERR_NO_PDF)
    /\ IF rebuild /\ dbDir
       THEN /\ dbDir' = FALSE /\ chromaFiles' = FALSE /\ index' = {}
            /\ manifestFile' = AbsentManifestFile
       ELSE UNCHANGED storage
    /\ UNCHANGED <<dataDir, files, vectordb>>

\* rag.py:131-133: no PDF discovered -> RuntimeError(ERR_NO_PDF), before
\* anything is touched
CallNoPdf(w, rebuild) ==
    /\ run[w].pc = "idle" /\ clock < MaxStamps
    /\ ListPdfs = <<>>
    /\ EndCall(w, StartFrame(rebuild, <<>>), "raised", ERR_NO_PDF)
    /\ UNCHANGED <<dataDir, files, storage, vectordb>>

\* rag.py:145-150: shutil.rmtree(DB_PATH) when rebuild is requested and the
\* directory exists; an OSError is logged and the directory stays
RmtreeApplies(rebuild) == rebuild /\ dbDir

\* rag.py:144-167 and 169: rebuild or fresh build is entered
CallFresh(w, rebuild, rmOk) ==
    /\ run[w].pc = "idle" /\ clock < MaxStamps
    /\ ListPdfs # <<>>
    /\ (~RmtreeApplies(rebuild)) => rmOk
    /\ LET erased == RmtreeApplies(rebuild) /\ rmOk
           d1 == IF erased THEN FALSE ELSE dbDir
           c1 == IF erased THEN FALSE ELSE chromaFiles
           x1 == IF erased THEN {} ELSE index
           m1 == IF erased THEN AbsentManifestFile ELSE manifestFile
           r0 == StartFrame(rebuild, ListPdfs)
       IN /\ ~UseExisting(d1, c1, m1, rebuild, vectordb)
          \* DB_PATH.mkdir(...); Chroma(persist_directory=...)
          /\ dbDir' = TRUE
          /\ chromaFiles' = TRUE
          /\ index' = x1
          /\ manifestFile' = m1
          /\ run' = [run EXCEPT ![w] =
                [r0 EXCEPT !.pc = "fresh", !.fresh = TRUE,
                           !.manifest = EmptyManifest,
                           !.status.mode = IF RmtreeApplies(rebuild) THEN "rebuild" ELSE "load",
                           !.rmtree = IF ~RmtreeApplies(rebuild) THEN "none"
                                      ELSE IF rmOk THEN "ok" ELSE "failed",
                           !.ops = IF RmtreeApplies(rebuild) THEN <<Op("rmtree", 0)>> ELSE <<>>]]
    /\ UNCHANGED <<dataDir, files, vectordb, clock, synced>>

\* rag.py:156-160 and 190-193: the existing store is opened, the manifest
\* is loaded.  rebuild is False on this branch.  The bound on timestamps
\* does not hold back the sync that directly follows a sync.
CallIncremental(w) ==
    /\ run[w].pc = "idle"
    /\ (clock < MaxStamps \/ (synced /\ clock = MaxStamps))
    /\ ListPdfs # <<>>
    /\ UseExisting(dbDir, chromaFiles, manifestFile, FALSE, vectordb)
    /\ chromaFiles' = TRUE
    /\ LET r0 == [StartFrame(FALSE, ListPdfs) EXCEPT !.status.mode = "incremental",
                                                    !.loadIn = manifestFile.kind]
           ld == LoadManifest(manifestFile)
           sd == SetDefaultFiles(ld.value)
           r1 == [r0 EXCEPT !.loaded = ld.value]
       IN IF ld.raised # "none"
          THEN EndCall(w, [r0 EXCEPT !.loadRaised = ld.raised], "raised", ld.raised)
          ELSE IF sd.raised # "none"
          THEN EndCall(w, r1, "raised", sd.raised)
          ELSE /\ run' = [run EXCEPT ![w] =
                      [r1 EXCEPT !.pc = "incr", !.manifest = sd.value]]
               /\ UNCHANGED <<synced, clock>>
    /\ UNCHANGED <<dataDir, files, dbDir, index, manifestFile, vectordb>>

\* the manifest written to disk after every source
IngestedAndSaved(r, src, f, loop) ==
    [r EXCEPT !.status.chunks_added = @ + Len(SplitDocs(f.content)),
              !.manifest.files[src] = MakeRecord(Sha256File(f), f, Now),
              !.stamped = TRUE,
              !.ops = @ \o <<Op("add", src), Op("save", 0)>>,
              !.i = @ + 1,
              !.pc = AfterSource(r, loop)]

\* _ingest_pdf (rag.py:113-125) followed by the manifest entry: the frame
\* after source src with bytes f has been ingested
Ingested(r, src, f, loop) ==
    [r EXCEPT !.status.chunks_added = @ + Len(SplitDocs(f.content)),
              !.manifest.files[src] = MakeRecord(Sha256File(f), f, Now),
              !.stamped = TRUE,
              !.ops = Append(@, Op("add", src)),
              !.i = @ + 1,
              !.pc = AfterSource(r, loop)]

\* rag.py:170-180: one iteration of the fresh-build loop
FreshStep(w) ==
    /\ run[w].pc = "fresh"
    /\ LET r == run[w]
           src == r.pdfs[r.i]
           f == files[src]
       IN /\ index' = AddDocuments(index, IngestUnits(src, f))
          /\ run' = [run EXCEPT ![w] =
                [Ingested(r, src, f, "fresh") EXCEPT !.class[src] = "added"]]
    /\ UNCHANGED <<dataDir, files, dbDir, chromaFiles, manifestFile, vectordb,
                   clock, synced>>

\* the manifest written on the way out of a failing call
IngestRaiseSaves(w) ==
    /\ run[w].pc \in {"fresh", "incr", "ingest"}
    /\ EndCall(w, run[w], "raised", "IngestError")
    /\ manifestFile' = [kind |-> "ok", files |-> run[w].manifest.files]
    /\ UNCHANGED <<dataDir, files, dbDir, chromaFiles, index, vectordb>>

\* stat, the hashing, the loader, the splitter or add_documents raises:
\* the call is left before anything of this source is stored
IngestRaise(w) ==
    /\ run[w].pc \in {"fresh", "incr", "ingest"}
    /\ EndCall(w, run[w], "raised", "IngestError")
    /\ UNCHANGED <<dataDir, files, storage, vectordb>>

\* the skip branch refreshing the manifest entry before it continues
SkippedRefreshed(r) ==
    [r EXCEPT !.status.skipped_pdfs = @ + 1,
              !.class[r.pdfs[r.i]] = "skipped",
              !.manifest.files[r.pdfs[r.i]] =
                  MakeRecord(Sha256File(files[r.pdfs[r.i]]), files[r.pdfs[r.i]], Now),
              !.stamped = TRUE,
              !.i = @ + 1,
              !.pc = AfterSource(r, "incr")]

\* rag.py:196-203: the source is unchanged: counted as skipped, nothing else
Skipped(r) ==
    [r EXCEPT !.status.skipped_pdfs = @ + 1,
              !.class[r.pdfs[r.i]] = "skipped",
              !.i = @ + 1,
              !.pc = AfterSource(r, "incr")]

SkipStep(w) ==
    /\ run[w].pc = "incr" /\ run[w].manifest.kind = "ok"
    /\ LET r == run[w]
           src == r.pdfs[r.i]
       IN /\ IsSkip(r.manifest.files[src], Sha256File(files[src]))
          /\ run' = [run EXCEPT ![w] = Skipped(r)]
    /\ UNCHANGED <<dataDir, files, storage, vectordb, clock, synced>>

\* _delete_by_source (rag.py:102-110): the delete is issued; when the
\* delete API is missing or raises, a warning is logged and nothing is removed
DeleteBySource(db, src, delOk) == IF delOk THEN DeleteWhereSource(db, src) ELSE db

\* rag.py:205-207: the source has an entry with another hash
UpdateStep(w, delOk) ==
    /\ run[w].pc = "incr" /\ run[w].manifest.kind = "ok"
    /\ LET r == run[w]
           src == r.pdfs[r.i]
           file_sha == Sha256File(files[src])
           prev == r.manifest.files[src]
       IN /\ ~IsSkip(prev, file_sha)
          /\ IsUpdate(prev, file_sha)
          /\ index' = DeleteBySource(index, src, delOk)
          /\ run' = [run EXCEPT ![w] =
                [r EXCEPT !.status.updated_pdfs = @ + 1,
                          !.class[src] = "updated",
                          !.sha = file_sha,
                          !.delFailed = IF delOk THEN @ ELSE @ \cup {src},
                          !.ops = Append(@, Op("delete", src)),
                          !.pc = "ingest"]]
    /\ UNCHANGED <<dataDir, files, dbDir, chromaFiles, manifestFile, vectordb,
                   clock, synced>>

\* rag.py:208-209: no usable entry: counted as added
AddStep(w) ==
    /\ run[w].pc = "incr" /\ run[w].manifest.kind = "ok"
    /\ LET r == run[w]
           src == r.pdfs[r.i]
           file_sha == Sha256File(files[src])
           prev == r.manifest.files[src]
       IN /\ ~IsSkip(prev, file_sha)
          /\ ~IsUpdate(prev, file_sha)
          /\ run' = [run EXCEPT ![w] =
                [r EXCEPT !.status.added_pdfs = @ + 1,
                          !.class[src] = "added",
                          !.sha = file_sha,
                          !.pc = "ingest"]]
    /\ UNCHANGED <<dataDir, files, storage, vectordb, clock, synced>>

\* rag.py:199 with "files": null : None has no .get -> AttributeError
NullFilesRaise(w) ==
    /\ run[w].pc = "incr" /\ run[w].manifest.kind = "filesnull"
    /\ EndCall(w, run[w], "raised", "AttributeError")
    /\ UNCHANGED <<dataDir, files, storage, vectordb>>

\* rag.py:211-217: the new units and the new manifest entry
IngestStep(w) ==
    /\ run[w].pc = "ingest"
    /\ LET r == run[w]
           src == r.pdfs[r.i]
           f == files[src]
       IN /\ index' = AddDocuments(index, IngestUnits(src, f))
          /\ run' = [run EXCEPT ![w] = Ingested(r, src, f, "incr")]
    /\ UNCHANGED <<dataDir, files, dbDir, chromaFiles, manifestFile, vectordb,
                   clock, synced>>

\* line 186 left out: added_pdfs stays 0 on the fresh branch
FinalStatusNoAdded(r) ==
    IF r.fresh THEN [r.status EXCEPT !.mode = FreshMode(r.rebuild)] ELSE r.status

\* the status that is returned: rag.py:185-186 on the fresh branch
FinalStatus(r) ==
    IF r.fresh
    THEN [r.status EXCEPT !.mode = FreshMode(r.rebuild), !.added_pdfs = Len(r.pdfs)]
    ELSE r.status

\* _save_manifest (rag.py:63-68): json.dumps of the in-memory manifest
SavedManifest(m) == [kind |-> "ok", files |-> m.files]

\* what db.persist does when _safe_persist reaches it: it works, it raises
\* OSError / RuntimeError / ValueError, or the store has no persist method
PersistOutcomes == {"ok", "failed", "absent"}

\* persist called with no try around it
SafePersistUncaught(outcome) == IF outcome = "failed" THEN "raised" ELSE "returned"

\* _safe_persist (rag.py:90-99): returns in every case, a failure is logged
SafePersist(outcome) == "returned"

\* rag.py:182-188 and 219-222: persist, save the manifest, install the
\* handle, return the status
Finish(w, persist) ==
    /\ run[w].pc = "finish"
    /\ LET r == [run[w] EXCEPT !.ops = Append(@, Op("persist", 0)),
                               !.persist = persist]
           r1 == [r EXCEPT !.ops = Append(@, Op("save", 0)),
                           !.status = FinalStatus(r)]
       IN IF SafePersist(persist) = "raised"
          THEN /\ EndCall(w, r, "raised", "PersistError")
               /\ UNCHANGED <<dbDir, manifestFile, vectordb>>
          ELSE /\ dbDir' = TRUE
               /\ manifestFile' = SavedManifest(r.manifest)
               /\ vectordb' = "Chroma"
               /\ EndCall(w, r1, "returned", "none")
    /\ UNCHANGED <<dataDir, files, chromaFiles, index>>

\* the handle installed before the manifest is written
FinishSaveFailsHandleSet(w) ==
    /\ run[w].pc = "finish"
    /\ vectordb' = "Chroma"
    /\ EndCall(w, [run[w] EXCEPT !.ops = Append(@, Op("persist", 0))], "raised", "OSError")
    /\ UNCHANGED <<dataDir, files, storage>>

\* write_text raises OSError: the call is left before the handle is set
FinishSaveFails(w) ==
    /\ run[w].pc = "finish"
    /\ EndCall(w, [run[w] EXCEPT !.ops = Append(@, Op("persist", 0))], "raised", "OSError")
    /\ UNCHANGED <<dataDir, files, storage, vectordb>>

\* ---------------------------------------------------------------- specifications
\* what happens around the calls.  Once the clock has reached its bound no
\* call can follow that would see a change made here, so none is made.
Environment ==
    /\ clock < MaxStamps
    /\ \/ MakeDataDir
       \/ RemoveDataDir
       \/ \E p \in Paths, c \in Contents : WriteFile(p, c)
       \/ \E p \in Paths : RemoveFile(p)
       \/ RestartProcess

PassWith(w, DelOutcomes) ==
    \/ \E rebuild \in BOOLEAN : CallNoPdf(w, rebuild)
    \/ \E rebuild \in BOOLEAN, rmOk \in BOOLEAN : CallFresh(w, rebuild, rmOk)
    \/ CallIncremental(w)
    \/ FreshStep(w)
    \/ IngestRaise(w)
    \/ SkipStep(w)
    \/ \E delOk \in DelOutcomes : UpdateStep(w, delOk)
    \/ AddStep(w)
    \/ IngestStep(w)
    \/ \E persist \in PersistOutcomes : Finish(w, persist)
    \/ FinishSaveFails(w)

\* one sync pass at a time, in one process at a time
Next ==
    /\ Environment \/ \E w \in SerialWorkers : PassWith(w, BOOLEAN)
    /\ SearchGone
    /\ UNCHANGED graph

Spec == Init /\ [][Next]_vars

\* the same, with a store whose delete(where=...) works every time
NextDeleteOk ==
    /\ Environment \/ \E w \in SerialWorkers : PassWith(w, {TRUE})
    /\ SearchGone
    /\ UNCHANGED graph

SpecDeleteOk == Init /\ [][NextDeleteOk]_vars

\* ---------------------------------------------------------------- a manifest file written by others
\* MANIFEST_PATH is replaced from outside by something _save_manifest never
\* writes: text that is no JSON, bytes that are no UTF-8, a file that cannot
\* be read, or JSON of another shape
TamperKinds == {"badjson", "oserror", "badutf8", "array", "nofiles", "filesnull"}

TamperManifest(kind) ==
    /\ AllIdle /\ dbDir
    /\ manifestFile.kind # kind
    /\ manifestFile' = [kind |-> kind, files |-> NoFilesMap]
    /\ FramesGone
    /\ UNCHANGED <<dataDir, files, dbDir, chromaFiles, index, vectordb, clock,
                   synced, search, graph>>

\* one entry of a well-formed manifest is emptied ({}) or loses its sha256
TamperEntry(p, tag) ==
    /\ AllIdle /\ manifestFile.kind = "ok"
    /\ manifestFile.files[p].tag = "rec"
    /\ manifestFile' = [manifestFile EXCEPT !.files[p] = [NoEntry EXCEPT !.tag = tag]]
    /\ FramesGone
    /\ UNCHANGED <<dataDir, files, dbDir, chromaFiles, index, vectordb, clock,
                   synced, search, graph>>

NextTamper ==
    \/ Next
    \/ \E kind \in TamperKinds : TamperManifest(kind)
    \/ \E p \in Paths, tag \in {"empty", "nosha"} : TamperEntry(p, tag)
    \/ (\E w \in SerialWorkers : NullFilesRaise(w)) /\ SearchGone /\ UNCHANGED graph

SpecTamper == Init /\ [][NextTamper]_vars

\* ---------------------------------------------------------------- retrieval
\* a document put into the collection by other code: no page and no source
\* in its metadata, white space around its text
ForeignDoc ==
    [id |-> <<0, NoPage, 0>>, source |-> NoSource, file_sha256 |-> 0,
     page |-> NoPage, text |-> <<Blank, 0, Blank>>]

AddForeignDoc ==
    /\ AllIdle /\ dbDir /\ chromaFiles
    /\ ForeignDoc \notin index
    /\ index' = AddDocuments(index, {ForeignDoc})
    /\ FramesGone
    /\ SearchGone
    /\ UNCHANGED <<dataDir, files, dbDir, chromaFiles, manifestFile, vectordb,
                   clock, synced, graph>>

\* rag_search(query, k) is called between two passes
RagSearch(q, k) ==
    /\ AllIdle
    /\ LET results == IF vectordb = "None" THEN <<>>
                      ELSE SimilaritySearch(index, q, k)
       IN search' = [pc |-> "returned", query |-> q, k |-> k, handle |-> vectordb,
                     results |-> results,
                     out |-> RagSearchResult(vectordb, results)]
    /\ FramesGone
    /\ UNCHANGED <<dataDir, files, storage, vectordb, clock, synced, graph>>

\* the passes that build the collection from all PDFs
Build(w) ==
    \/ \E rebuild \in BOOLEAN, rmOk \in BOOLEAN : CallFresh(w, rebuild, rmOk)
    \/ FreshStep(w)
    \/ IngestRaise(w)
    \/ \E persist \in PersistOutcomes : Finish(w, persist)

\* retrieval from collections as builds, restarts and other writers leave them
NextSearch ==
    \/ (Environment \/ \E w \in SerialWorkers : Build(w)) /\ SearchGone /\ UNCHANGED graph
    \/ AddForeignDoc
    \/ \E q \in Queries, k \in Ks : RagSearch(q, k)

SpecSearch == Init /\ [][NextSearch]_vars

\* ---------------------------------------------------------------- graph runs
\* the nodes build_graph adds (build_graph.py:205-209)
AgentNodes == {"documentation", "web", "telegram"}
Nodes == {"orchestrator", "synthesize"} \cup AgentNodes

\* graph.ainvoke(initial_state): the entry point is the orchestrator node
StartRun(web, telegram) ==
    /\ graph.node \in {"idle", "END"}
    /\ graph' = [NoGraphRun EXCEPT !.node = "orchestrator", !.web = web,
                                   !.telegram = telegram]
    /\ UNCHANGED ragVars

\* the node has run and the conditional edge has chosen the next one
RoutedFrom(st, name) ==
    [st EXCEPT !.executed = Append(@, name), !.node = Router(st)]

\* orchestrator_node (build_graph.py:104-110)
OrchestratorNode ==
    /\ graph.node = "orchestrator"
    /\ graph' = RoutedFrom([graph EXCEPT !.pending_agents =
                                DeterminePendingAgents(graph.web, graph.telegram)],
                            "orchestrator")
    /\ UNCHANGED ragVars

\* documentation_node, web_node, telegram_node (build_graph.py:113-131)
AgentNode(outcome, findings) ==
    /\ graph.node \in AgentNodes
    /\ graph' = RoutedFrom(ProcessAgent(graph, graph.node, outcome, findings),
                           graph.node)
    /\ UNCHANGED ragVars

\* synthesize_node (build_graph.py:134-168) and the edge to END
SynthesizeNode ==
    /\ graph.node = "synthesize"
    /\ graph' = [graph EXCEPT !.is_complete = TRUE,
                              !.executed = Append(@, "synthesize"),
                              !.node = "END"]
    /\ UNCHANGED ragVars

GraphStep ==
    \/ OrchestratorNode
    \/ \E outcome \in AgentOutcomes, findings \in 0..MaxFindings :
            AgentNode(outcome, findings)
    \/ SynthesizeNode

NextGraph ==
    \/ \E web \in BOOLEAN, telegram \in BOOLEAN : StartRun(web, telegram)
    \/ GraphStep

\* the graph engine runs the next node as long as there is one
SpecGraph == Init /\ [][NextGraph]_vars /\ WF_vars(GraphStep)

\* ---------------------------------------------------------------- properties
Frame(w) == run[w]

\* the call of worker w has just returned its status
Returned(w) == run[w].pc = "idle" /\ run[w].outcome = "returned"

\* the call of worker w got past the test for PDFs
Started(w) == run[w].pdfs # <<>>

\* C1: an incremental sync that directly follows a returned incremental sync,
\* with the data directory untouched in between, reports added = 0,
\* updated = 0, skipped = pdf_total, chunks_added = 0 and leaves the set of
\* stored units as it found it.
IdempotentResync ==
    \A w \in Workers :
        (Returned(w) /\ Frame(w).status.mode = "incremental" /\ Frame(w).repeat)
        => /\ Frame(w).status.added_pdfs = 0
           /\ Frame(w).status.updated_pdfs = 0
           /\ Frame(w).status.skipped_pdfs = Frame(w).status.pdf_total
           /\ Frame(w).status.chunks_added = 0
           /\ index = Frame(w).index0
           /\ Cardinality(index) = Cardinality(Frame(w).index0)

IdempotentResyncWitness ==
    \E w \in Workers :
        /\ Returned(w) /\ Frame(w).status.mode = "incremental" /\ Frame(w).repeat
        /\ Frame(w).status.pdf_total = 2
        /\ index # {}

\* C2: without rebuild, the call syncs incrementally exactly when the index
\* directory existed non-empty and a manifest file existed when it was
\* called, whatever the process has done before; otherwise it builds fresh.
IncrementalExpected(r) ==
    /\ DbNonEmpty(r.db0.dbDir, r.db0.chromaFiles, r.manifest0)
    /\ r.manifest0.kind # "absent"

ModeSelection ==
    \A w \in Workers :
        (Started(w) /\ ~Frame(w).rebuild)
        => (Frame(w).fresh <=> ~IncrementalExpected(Frame(w)))

\* C8: a call that finds no PDF raises ERR_NO_PDF, with rebuild or without,
\* and leaves the index directory, the manifest file and _vectordb as they
\* were; no call gets further with an empty list.
NoSourcesMutatesNothing ==
    \A w \in Workers :
        /\ (Frame(w).pc = "idle" /\ Frame(w).err = ERR_NO_PDF)
           => /\ Frame(w).outcome = "raised"
              /\ dbDir = Frame(w).db0.dbDir
              /\ chromaFiles = Frame(w).db0.chromaFiles
              /\ index = Frame(w).index0
              /\ manifestFile = Frame(w).manifest0
              /\ vectordb = Frame(w).handle0
        /\ (Frame(w).pc # "idle" \/ Frame(w).outcome = "returned") => Started(w)

NoSourcesWitness ==
    \E w \in Workers :
        /\ Frame(w).pc = "idle" /\ Frame(w).err = ERR_NO_PDF
        /\ Frame(w).rebuild
        /\ index # {} /\ manifestFile.kind = "ok" /\ vectordb = "Chroma"

\* C9 as amended: a returned status has mode "rebuild" when rebuild was
\* requested, "rebuild_initial" for a fresh build without rebuild, and
\* "incremental" for an incremental sync.
StatusModeDomain ==
    \A w \in Workers :
        Returned(w)
        => /\ Frame(w).status.mode \in {"rebuild", "rebuild_initial", "incremental"}
           /\ Frame(w).status.mode =
                 IF Frame(w).rebuild THEN "rebuild"
                 ELSE IF Frame(w).fresh THEN "rebuild_initial"
                 ELSE "incremental"

StatusModeWitness ==
    \E w \in Workers :
        Returned(w) /\ Frame(w).fresh /\ ~Frame(w).rebuild
        /\ Frame(w).status.mode = "rebuild_initial"

\* C9 as stated: the mode is one of rebuild, fresh, incremental, with
\* "fresh" for a fresh build without rebuild.
StatusModeAsStated ==
    \A w \in Workers :
        Returned(w)
        => /\ Frame(w).status.mode \in {"rebuild", "fresh", "incremental"}
           /\ Frame(w).status.mode =
                 IF Frame(w).rebuild THEN "rebuild"
                 ELSE IF Frame(w).fresh THEN "fresh"
                 ELSE "incremental"

\* an incremental sync of worker w, under way or just returned
InIncremental(w) ==
    /\ Started(w) /\ ~Frame(w).fresh
    /\ (Frame(w).pc # "idle" \/ Frame(w).outcome = "returned")

\* the k-th discovered source has been classified / is done with
Classified(r, k) == k < r.i \/ (k = r.i /\ r.pc = "ingest")
DoneWith(r, k) == k < r.i

OpsAt(r, name, p) == {j \in DOMAIN r.ops : r.ops[j] = Op(name, p)}

\* the loaded manifest has a record of p with another / the same hash
HashChanged(r, p) ==
    r.loaded.files[p].tag = "rec" /\ r.loaded.files[p].sha256 # Sha256File(files[p])
HashSame(r, p) ==
    r.loaded.files[p].tag = "rec" /\ r.loaded.files[p].sha256 = Sha256File(files[p])

ClassCount(r, c) == Cardinality({p \in Paths : r.class[p] = c})

\* C4: in an incremental sync a source whose hash differs from the hash of
\* its loaded manifest record is counted as updated and not as added, its
\* delete-by-source is issued before its units are added, and its record
\* carries the new hash afterwards (in the saved manifest once the call
\* has returned).
ChangeDetection ==
    \A w \in Workers :
        InIncremental(w)
        => /\ \A k \in DOMAIN Frame(w).pdfs :
                LET r == Frame(w)
                    p == r.pdfs[k]
                IN HashChanged(r, p)
                   => /\ Classified(r, k)
                         => /\ r.class[p] = "updated"
                            /\ OpsAt(r, "delete", p) # {}
                      /\ DoneWith(r, k)
                         => /\ OpsAt(r, "add", p) # {}
                            /\ \A a \in OpsAt(r, "add", p) :
                                  \E d \in OpsAt(r, "delete", p) : d < a
                            /\ r.manifest.files[p].tag = "rec"
                            /\ r.manifest.files[p].sha256 = Sha256File(files[p])
                      /\ Returned(w)
                         => /\ manifestFile.files[p].tag = "rec"
                            /\ manifestFile.files[p].sha256 = Sha256File(files[p])
           /\ Frame(w).status.updated_pdfs = ClassCount(Frame(w), "updated")
           /\ Frame(w).status.added_pdfs = ClassCount(Frame(w), "added")

ChangeDetectionWitness ==
    \E w \in Workers :
        /\ InIncremental(w) /\ Returned(w)
        /\ \E p \in Paths : files[p].exists /\ HashChanged(Frame(w), p)
        /\ Frame(w).status.updated_pdfs = 1
        /\ Frame(w).status.added_pdfs = 1

RECURSIVE SumChunks(_)
SumChunks(S) ==
    IF S = {} THEN 0
    ELSE LET p == CHOOSE q \in S : TRUE
         IN Len(SplitDocs(files[p].content)) + SumChunks(S \ {p})

\* C6: in an incremental sync a source whose hash equals the hash of its
\* loaded record is counted as skipped; no add, delete or chunking is issued
\* for it, its record (hash, size, ingestion time) stays as loaded and as it
\* is on disk, and chunks_added grows only by the sources that were ingested.
SkipLeavesUntouched ==
    \A w \in Workers :
        InIncremental(w)
        => /\ \A k \in DOMAIN Frame(w).pdfs :
                LET r == Frame(w)
                    p == r.pdfs[k]
                IN (HashSame(r, p) /\ DoneWith(r, k))
                   => /\ r.class[p] = "skipped"
                      /\ \A j \in DOMAIN r.ops : r.ops[j].src # p
                      /\ r.manifest.files[p] = r.loaded.files[p]
                      /\ Returned(w) => manifestFile.files[p] = r.manifest0.files[p]
           /\ Frame(w).status.skipped_pdfs = ClassCount(Frame(w), "skipped")
           /\ Frame(w).status.chunks_added =
                 SumChunks({p \in Paths : OpsAt(Frame(w), "add", p) # {}})

SkipWitness ==
    \E w \in Workers :
        /\ InIncremental(w) /\ Returned(w)
        /\ \E p \in Paths :
              /\ files[p].exists /\ HashSame(Frame(w), p)
              /\ Frame(w).class[p] = "skipped"
              /\ manifestFile.files[p].ingested_at_utc < clock
        /\ Frame(w).status.chunks_added > 0

\* the stored units labelled with source p
UnitsOf(p) == {u \in index : u.source = p}

\* C3 (under SpecDeleteOk): after a returned pass every path whose
\* manifest record carries the hash of the file's current bytes has in the
\* index exactly the units of those bytes under that path.
ManifestIndexConsistency ==
    \A w \in Workers :
        Returned(w)
        => \A p \in Paths :
             ( /\ files[p].exists
               /\ manifestFile.files[p].tag = "rec"
               /\ manifestFile.files[p].sha256 = Sha256File(files[p]) )
             => UnitsOf(p) = IngestUnits(p, files[p])

\* the bytes of p differ from those its manifest record was made from
EditedSinceRecord(r, p) ==
    r.manifest0.files[p].tag = "rec" /\ r.manifest0.files[p].sha256 # Sha256File(files[p])

\* C5 (under SpecDeleteOk): after a returned pass a discovered source
\* that was edited since its record was made has no stored unit of other
\* bytes, has as many stored units as its new bytes have chunks, and every
\* text a search can return for it is a chunk of the new bytes.
NoStaleAfterEdit ==
    \A w \in Workers :
        Returned(w)
        => \A k \in DOMAIN Frame(w).pdfs :
             LET p == Frame(w).pdfs[k]
                 docs == SplitDocs(files[p].content)
             IN EditedSinceRecord(Frame(w), p)
                => /\ \A u \in UnitsOf(p) : u.file_sha256 = Sha256File(files[p])
                   /\ Cardinality(UnitsOf(p)) = Len(docs)
                   /\ {u.text : u \in UnitsOf(p)} \subseteq {docs[j].text : j \in DOMAIN docs}

\* C7: after a returned rebuild the index holds exactly the units of the
\* discovered sources, and the manifest exactly one record per discovered
\* source.
RebuildErasesThenRebuilds ==
    \A w \in Workers :
        (Returned(w) /\ Frame(w).rebuild)
        => /\ index = UNION {IngestUnits(Frame(w).pdfs[k], files[Frame(w).pdfs[k]]) :
                                k \in DOMAIN Frame(w).pdfs}
           /\ \A p \in Paths :
                 (manifestFile.files[p].tag # "none")
                 <=> (\E k \in DOMAIN Frame(w).pdfs : Frame(w).pdfs[k] = p)

\* C10: _load_manifest never leaves by an exception, and gives the empty
\* manifest for a file that is absent, cannot be read or decoded, or is no
\* JSON.
LoadNeverRaises ==
    \A w \in Workers :
        Frame(w).loadIn # "notcalled"
        => /\ Frame(w).loadRaised = "none"
           /\ Frame(w).loadIn \in {"absent", "badjson", "oserror", "badutf8"}
              => Frame(w).loaded = EmptyManifest

\* C11 (under SpecTamper): an incremental sync that finds a manifest file it
\* cannot read or that is not an object with a "files" mapping is not left
\* by an exception of the loading or of the look-up, and counts every
\* source it classifies as added.
ManifestNeverFatal ==
    \A w \in Workers :
        Frame(w).loadIn \in TamperKinds
        => /\ Frame(w).err \notin {"UnicodeDecodeError", "AttributeError"}
           /\ \A k \in DOMAIN Frame(w).pdfs :
                 Classified(Frame(w), k) => Frame(w).class[Frame(w).pdfs[k]] = "added"

\* rag_search has just returned
Searched == search.pc = "returned"

\* C12 (under SpecSearch): rag_search returns ERR_RAG_NOT_INIT when the
\* process holds no index handle, the no-relevant-information sentence when
\* the handle is there and the query matches no unit, and a string in every
\* case.
RetrievalSentinels ==
    Searched
    => /\ vectordb = "None" => search.out = [text |-> ERR_RAG_NOT_INIT, parts |-> <<>>]
       /\ (vectordb # "None" /\ SimilaritySearch(index, search.query, search.k) = <<>>)
          => search.out = [text |-> NoRelevantInfo, parts |-> <<>>]
       /\ search.out.text # "" \/ search.out.parts # <<>>
       /\ search.out.text \in {"", ERR_RAG_NOT_INIT, NoRelevantInfo}

RetrievalSentinelsWitness ==
    /\ Searched /\ vectordb = "Chroma" /\ index = {}
    /\ search.out.text = NoRelevantInfo

\* C13 (under SpecSearch): the entry of every returned unit shows the
\* stored page number plus one when the unit has one (a stored 0 is shown
\* as 1) and "N/A" when it has none.
PageNumbering ==
    Searched
    => \A j \in DOMAIN search.results :
          LET u == search.results[j]
              e == search.out.parts[2 * j - 1]
          IN /\ u.page # NoPage => e.page = ToString(u.page + 1)
             /\ u.page = 0 => e.page = "1"
             /\ u.page = NoPage => e.page = "N/A"

PageNumberingWitness ==
    /\ Searched
    /\ \E j \in DOMAIN search.results : search.results[j].page = 0
    /\ \E j \in DOMAIN search.results : search.results[j].page = NoPage

\* C14 (under SpecSearch): for a query that matches, rag_search returns one
\* entry per unit of the index query, nearest first as the index gave
\* them, at most k of them, each with the file name of its source and a
\* page label, and the delimiter between every two neighbours.
SearchResultShape ==
    (Searched /\ search.results # <<>>)
    => LET n == Len(search.results)
           parts == search.out.parts
       IN /\ search.results = SimilaritySearch(index, search.query, search.k)
          /\ n <= search.k
          /\ search.out.text = ""
          /\ Len(parts) = 2 * n - 1
          /\ \A j \in 1..n :
                LET u == search.results[j]
                    e == parts[2 * j - 1]
                IN /\ ~e.sep
                   /\ u.source # NoSource => e.src_name = FileNames[u.source]
                   /\ e.page \in {"N/A"} \cup {ToString(m) : m \in 1..3}
                   /\ e.text = Strip(u.text)
          /\ \A j \in 1..(n - 1) :
                /\ parts[2 * j] = Delimiter
                /\ Distance(search.query, search.results[j])
                      <= Distance(search.query, search.results[j + 1])

SearchResultShapeWitness ==
    /\ Searched /\ Len(search.results) = 2 /\ search.k = 2
    /\ search.results[1].source # search.results[2].source
    /\ search.results[1].source # NoSource
    /\ Cardinality(index) > 2

Ids(S) == {u.id : u \in S}

\* the discovered sources of frame r
Discovered(r) == {r.pdfs[k] : k \in DOMAIN r.pdfs}

\* C15: no two stored units share an id, and a fresh build over a store
\* that was not erased and already holds the ids of every discovered
\* source's units leaves the number of stored units as it was.
UpsertByIdentity ==
    /\ \A u \in index : \A v \in index : u.id = v.id => u = v
    /\ \A w \in Workers :
          ( /\ Returned(w) /\ Frame(w).fresh /\ Frame(w).rmtree # "ok"
            /\ \A p \in Discovered(Frame(w)) :
                  Ids(IngestUnits(p, files[p])) \subseteq Ids(Frame(w).index0) )
          => /\ Cardinality(index) = Cardinality(Frame(w).index0)
             /\ Ids(index) = Ids(Frame(w).index0)

UpsertByIdentityWitness ==
    \E w \in Workers :
        /\ Returned(w) /\ Frame(w).fresh /\ ~Frame(w).rebuild
        /\ Frame(w).status.pdf_total = 2
        /\ Frame(w).status.chunks_added > 2
        /\ Frame(w).index0 # {}
        /\ \A p \in Discovered(Frame(w)) :
              Ids(IngestUnits(p, files[p])) \subseteq Ids(Frame(w).index0)

\* C16: a returned pass without rebuild leaves the manifest record and the
\* stored units of every path that has a record but is no longer
\* discovered as they were before the pass.
NoAutomaticPruning ==
    \A w \in Workers :
        (Returned(w) /\ ~Frame(w).rebuild)
        => \A p \in Paths \ Discovered(Frame(w)) :
              Frame(w).manifest0.files[p].tag # "none"
              => /\ manifestFile.files[p] = Frame(w).manifest0.files[p]
                 /\ UnitsOf(p) = {u \in Frame(w).index0 : u.source = p}

SaveFailureIsWarning ==
    \A w \in Workers :
        (Frame(w).pc = "idle" /\ Frame(w).err = "OSError")
        => /\ Frame(w).outcome = "returned"
           /\ vectordb = "Chroma"

\* C19: a returned fresh build or rebuild has added every discovered
\* source once: added_pdfs = pdf_total, updated_pdfs = 0, skipped_pdfs = 0,
\* chunks_added is the sum of the sources' chunk counts, and the saved
\* manifest has a record, with the current hash, for exactly the discovered
\* sources.
FreshBuildAccounting ==
    \A w \in Workers :
        (Returned(w) /\ Frame(w).fresh)
        => LET r == Frame(w)
           IN /\ r.status.added_pdfs = r.status.pdf_total
              /\ r.status.pdf_total = Cardinality(Discovered(r))
              /\ r.status.updated_pdfs = 0
              /\ r.status.skipped_pdfs = 0
              /\ r.status.chunks_added = SumChunks(Discovered(r))
              /\ \A p \in Discovered(r) : Cardinality(OpsAt(r, "add", p)) = 1
              /\ \A p \in Paths :
                    IF p \in Discovered(r)
                    THEN /\ manifestFile.files[p].tag = "rec"
                         /\ manifestFile.files[p].sha256 = Sha256File(files[p])
                    ELSE manifestFile.files[p].tag = "none"

FreshBuildAccountingWitness ==
    \E w \in Workers :
        /\ Returned(w) /\ Frame(w).fresh /\ Frame(w).rebuild
        /\ Frame(w).status.pdf_total = 2
        /\ Frame(w).status.chunks_added = 3
        /\ Frame(w).manifest0.kind = "ok"

\* the manifest file as the running pass of frame r must find it
ManifestDuring(r) == IF r.rmtree = "ok" THEN AbsentManifestFile ELSE r.manifest0

\* C20: while a pass is under way the manifest file is not written; a pass
\* that returns has written it once, as its last step, directly after the
\* persist attempt, which follows every add and delete of the pass.
WriteOnceAtEnd ==
    \A w \in Workers :
        LET r == Frame(w)
            n == Len(r.ops)
        IN /\ r.pc # "idle"
              => /\ OpsAt(r, "save", 0) = {}
                 /\ manifestFile = ManifestDuring(r)
           /\ Returned(w)
              => /\ OpsAt(r, "save", 0) = {n}
                 /\ OpsAt(r, "persist", 0) = {n - 1}
                 /\ manifestFile = SavedManifest(r.manifest)

WriteOnceAtEndWitness ==
    \E w \in Workers :
        /\ Returned(w)
        /\ Len(Frame(w).ops) = 5
        /\ \E p \in Paths : OpsAt(Frame(w), "delete", p) # {}
        /\ manifestFile # Frame(w).manifest0

\* some path has units of two different contents stored under it
MixedUnits(db) ==
    \E u \in db : \E v \in db : u.source = v.source /\ u.file_sha256 # v.file_sha256

\* C21 (under SpecDeleteOk, passes strictly one after another): a pass
\* without rebuild that finds no path with units of two contents in the
\* store leaves none behind when it returns.
SerialNoMixedUnits ==
    \A w \in Workers :
        (Returned(w) /\ ~Frame(w).rebuild /\ ~MixedUnits(Frame(w).index0))
        => ~MixedUnits(index)

\* the ids one ingest of a file with content c produces
IdsOfContent(c) ==
    MakeChunkIds(Sha256File([exists |-> TRUE, content |-> c]), SplitDocs(c))

\* C22: the ids of a document are sha:page:index over its chunk list, with
\* the page slot holding the stand-in when a chunk has no page; the ids of
\* one ingest are pairwise distinct; and every stored unit, whichever pass
\* stored it, has the id the ingest of its content gives to its chunk.
IdentityStability ==
    /\ \A c \in Contents :
          LET ids == IdsOfContent(c)
          IN /\ Len(ids) = Len(SplitDocs(c))
             /\ \A k \in DOMAIN ids :
                   ids[k] = <<Sha256File([exists |-> TRUE, content |-> c]),
                              SplitDocs(c)[k].page, k - 1>>
             /\ \A j \in DOMAIN ids : \A k \in DOMAIN ids : j # k => ids[j] # ids[k]
             /\ MakeChunkIds(c, <<[page |-> NoPage, text |-> <<>>]>>) = <<<<c, NoPage, 0>>>>
    /\ \A u \in index :
          \E k \in DOMAIN SplitDocs(u.file_sha256) :
              /\ u.id = IdsOfContent(u.file_sha256)[k]
              /\ u.text = SplitDocs(u.file_sha256)[k].text
    /\ \A w \in Workers : \A p \in Paths :
          (Frame(w).pc \in {"idle", "finish"} /\ OpsAt(Frame(w), "add", p) # {})
          => LET ids == IdsOfContent(files[p].content)
             IN {ids[k] : k \in DOMAIN ids} \subseteq Ids(index)

IdentityStabilityWitness ==
    \E w \in Workers : \E p \in Paths :
        /\ Returned(w) /\ OpsAt(Frame(w), "add", p) # {}
        /\ Len(IdsOfContent(files[p].content)) = 2
        /\ \A k \in 1..2 : IdsOfContent(files[p].content)[k] \in Ids(Frame(w).index0)
        /\ \A k \in 1..2 : IdsOfContent(files[p].content)[k] \in Ids(index)

\* C23: in every returned status added_pdfs + updated_pdfs + skipped_pdfs
\* = pdf_total = the number of discovered sources, every discovered source
\* is in exactly one of the three counts, and chunks_added is 0 when
\* nothing was added or updated.
CounterConservation ==
    \A w \in Workers :
        Returned(w)
        => LET r == Frame(w)
               st == r.status
           IN /\ st.added_pdfs + st.updated_pdfs + st.skipped_pdfs = st.pdf_total
              /\ st.pdf_total = Cardinality(Discovered(r))
              /\ st.pdf_total = Len(r.pdfs)
              /\ \A p \in Paths :
                    IF p \in Discovered(r)
                    THEN r.class[p] \in {"added", "updated", "skipped"}
                    ELSE r.class[p] = "none"
              /\ st.added_pdfs = ClassCount(r, "added")
              /\ st.updated_pdfs = ClassCount(r, "updated")
              /\ st.skipped_pdfs = ClassCount(r, "skipped")
              /\ (st.added_pdfs + st.updated_pdfs = 0) => st.chunks_added = 0

CounterConservationWitness ==
    \E w \in Workers :
        /\ Returned(w)
        /\ Frame(w).status.skipped_pdfs = 1
        /\ Frame(w).status.updated_pdfs = 1
        /\ Frame(w).status.chunks_added > 0

\* worker w leaves its call in this step, with the given outcome
Leaves(w, outcome) ==
    /\ run'[w] # run[w]
    /\ run'[w].pc = "idle" /\ run'[w].outcome = outcome

\* C24: the handle becomes non-empty only in the step in which a call
\* returns, every returning call leaves it non-empty, a call that raises
\* and a call under way leave it as it was, and it becomes empty again only
\* when the process is replaced by a new one.
HandleStep ==
    /\ (\E w \in Workers : Leaves(w, "returned")) => vectordb' = "Chroma"
    /\ (\E w \in Workers : Leaves(w, "raised")) => vectordb' = vectordb
    /\ (\E w \in Workers : run'[w].pc # "idle") => vectordb' = vectordb
    /\ (vectordb = "None" /\ vectordb' # "None")
       => \E w \in Workers : Leaves(w, "returned")
    /\ (vectordb # "None" /\ vectordb' = "None")
       => /\ AllIdle /\ FramesGone
          /\ UNCHANGED <<dataDir, files, storage>>

HandleLifecycle == [][HandleStep]_vars

HandleLifecycleWitness ==
    \E w \in Workers :
        /\ Frame(w).pc = "idle" /\ Frame(w).outcome = "raised"
        /\ Frame(w).err \in {"IngestError", "OSError"}
        /\ Frame(w).handle0 = "Chroma" /\ vectordb = "Chroma"
        /\ index # Frame(w).index0

\* C25: a call without rebuild that is left by an exception raised while a
\* source is hashed, loaded, chunked or added leaves the manifest file as
\* it was before the call.
AbortLeavesManifest ==
    \A w \in Workers :
        ( /\ Frame(w).pc = "idle" /\ Frame(w).outcome = "raised"
          /\ Frame(w).err = "IngestError" /\ ~Frame(w).rebuild )
        => manifestFile = Frame(w).manifest0

AbortLeavesManifestWitness ==
    \E w \in Workers :
        /\ Frame(w).pc = "idle" /\ Frame(w).outcome = "raised"
        /\ Frame(w).err = "IngestError" /\ ~Frame(w).rebuild
        /\ Frame(w).manifest0.kind = "ok"
        /\ \E p \in Paths : OpsAt(Frame(w), "delete", p) # {} /\ OpsAt(Frame(w), "add", p) # {}
        /\ index # Frame(w).index0
        /\ Frame(w).manifest # manifestFile

\* C26 (under SpecDeleteOk): an incremental sync that returns directly
\* after an aborted incremental sync of the same process, with the data
\* directory untouched in between, leaves every discovered source with
\* exactly the units of its current content and a record with its current
\* hash.
RecoveryAfterAbort ==
    \A w \in Workers :
        (Returned(w) /\ ~Frame(w).fresh /\ Frame(w).afterAbort)
        => \A p \in Discovered(Frame(w)) :
              /\ UnitsOf(p) = IngestUnits(p, files[p])
              /\ manifestFile.files[p].tag = "rec"
              /\ manifestFile.files[p].sha256 = Sha256File(files[p])

\* C27 (under SpecDeleteOk): after a returned pass two discovered paths
\* with the same bytes each have the full set of units of those bytes
\* stored under their own path.
IdenticalBytesIndependent ==
    \A w \in Workers :
        Returned(w)
        => \A p \in Discovered(Frame(w)) : \A q \in Discovered(Frame(w)) :
              (p # q /\ files[p].content = files[q].content)
              => /\ UnitsOf(p) = IngestUnits(p, files[p])
                 /\ UnitsOf(q) = IngestUnits(q, files[q])

\* C28 (under SpecTamper): in an incremental sync a source is counted as
\* added only when the loaded manifest has no entry under its path; a
\* source with an entry, empty or without sha256 included, is skipped or
\* is updated with its delete-by-source issued before its units are added.
AddedMeansNoEntry ==
    \A w \in Workers :
        InIncremental(w)
        => \A k \in DOMAIN Frame(w).pdfs :
              LET r == Frame(w)
                  p == r.pdfs[k]
              IN Classified(r, k)
                 => /\ r.class[p] = "added" => r.loaded.files[p].tag = "none"
                    /\ r.loaded.files[p].tag # "none"
                       => \/ r.class[p] = "skipped"
                          \/ /\ r.class[p] = "updated"
                             /\ OpsAt(r, "delete", p) # {}
                             /\ \A a \in OpsAt(r, "add", p) :
                                   \E d \in OpsAt(r, "delete", p) : d < a


\* ---------------------------------------------------------------- graph properties
Executed(name) == InSeq(name, graph.executed)

Position(name) == CHOOSE j \in DOMAIN graph.executed : graph.executed[j] = name

\* no node has run twice in the run so far
EachNodeOnce ==
    \A i, j \in DOMAIN graph.executed :
        graph.executed[i] = graph.executed[j] => i = j

RunEnded ==
    /\ graph.node = "END"
    /\ graph.is_complete
    /\ graph.executed[Len(graph.executed)] = "synthesize"

\* C29: whatever the query and whatever each agent does (it answers, it
\* is missing from the registry, its processing raises), a run started at
\* the orchestrator node gets to the synthesize node and from there to
\* END with is_complete true, within as many steps as there are nodes,
\* and no node runs twice in one run
GraphRunTerminates ==
    /\ (graph.node = "orchestrator") ~> RunEnded
    /\ [](EachNodeOnce /\ Len(graph.executed) <= Cardinality(Nodes))
    /\ [](graph.node = "END" => RunEnded)

\* a run that ended although the web agent failed
GraphRunTerminatesWitness ==
    /\ RunEnded
    /\ graph.error # ""
    /\ graph.executed = <<"orchestrator", "documentation", "web", "synthesize">>

\* C30: documentation runs before web and before telegram, web runs
\* before telegram when both run, and as soon as an agent step has
\* recorded an error the node to run is synthesize (or the run has
\* ended): the failed agent is the last agent of the run
RoutingOrder ==
    /\ \A name \in {"web", "telegram"} :
          Executed(name) =>
              /\ Executed("documentation")
              /\ Position("documentation") < Position(name)
    /\ Executed("web") /\ Executed("telegram") =>
          Position("web") < Position("telegram")
    /\ graph.node = "telegram" /\ InSeq("web", graph.pending_agents) => FALSE
    /\ graph.error # "" =>
          /\ graph.node \in {"synthesize", "END"}
          /\ \E j \in DOMAIN graph.executed :
                /\ graph.executed[j] \in AgentNodes
                /\ \A i \in DOMAIN graph.executed :
                      i > j => graph.executed[i] = "synthesize"

\* web answered, telegram failed, and the run went on to synthesize
RoutingOrderWitness ==
    /\ graph.error # ""
    /\ graph.executed = <<"orchestrator", "documentation", "web", "telegram",
                          "synthesize">>

====
